---- MODULE Spec2Model ----
(***************************************************************************)
(* Model of src/solve.py: SecureRegistrationClient, a sequential client    *)
(* that walks nine named steps against one HTTP server, threading a        *)
(* mutable context dictionary (self.ctx) through them and stopping at the  *)
(* first step that returns False.                                          *)
(*                                                                         *)
(* Representation of Python values held in self.ctx or returned as JSON:   *)
(*   [str  |-> <<"a","b">>]  a str, as a sequence of one-character strings *)
(*   [hex  |-> v]            the str hashlib.sha256(v.encode()).hexdigest()*)
(*                           kept symbolic: SHA-256 is taken to be         *)
(*                           collision free, and a digest never equals a   *)
(*                           str written out as characters                 *)
(*   [int  |-> n]            an int                                        *)
(*   [list |-> <<v1,...>>]   a list                                        *)
(*   [none |-> TRUE]         None (JSON null)                              *)
(*   [absent |-> TRUE]       no such key in the dictionary                 *)
(* bytes objects are sequences of integers 0..255.                         *)
(***************************************************************************)
EXTENDS Integers, Sequences, FiniteSets, TLC

PyStr(s) == [str |-> s]
PyInt(n) == [int |-> n]
PyList(l) == [list |-> l]
PyNone == [none |-> TRUE]
Absent == [absent |-> TRUE]

IsStr(v) == "str" \in DOMAIN v \/ "hex" \in DOMAIN v
IsInt(v) == "int" \in DOMAIN v
IsList(v) == "list" \in DOMAIN v
IsAbsent(v) == "absent" \in DOMAIN v

(***************************************************************************)
(* base64.b64decode(s) with the default validate=False, as binascii        *)
(* a2b_base64 computes it: characters outside the alphabet are skipped,    *)
(* a pad sequence that completes a quad ends the parse, data left in an    *)
(* incomplete quad is an error.                                            *)
(***************************************************************************)
B64Alphabet ==
    << "A","B","C","D","E","F","G","H","I","J","K","L","M","N","O","P",
       "Q","R","S","T","U","V","W","X","Y","Z","a","b","c","d","e","f",
       "g","h","i","j","k","l","m","n","o","p","q","r","s","t","u","v",
       "w","x","y","z","0","1","2","3","4","5","6","7","8","9","+","/" >>

IsB64Char(c) == \E i \in 1..64 : B64Alphabet[i] = c

B64Value(c) == (CHOOSE i \in 1..64 : B64Alphabet[i] = c) - 1

DecodeError == [ok |-> FALSE]

RECURSIVE A2bBase64(_, _, _, _, _, _)
A2bBase64(s, i, quad_pos, leftchar, pads, out) ==
    IF i > Len(s)
    THEN IF quad_pos # 0 THEN DecodeError ELSE [ok |-> TRUE, bytes |-> out]
    ELSE IF s[i] = "="
    THEN IF quad_pos >= 2 /\ quad_pos + pads + 1 >= 4
         THEN [ok |-> TRUE, bytes |-> out]
         ELSE A2bBase64(s, i + 1, quad_pos, leftchar,
                        IF quad_pos >= 2 THEN pads + 1 ELSE pads, out)
    ELSE IF ~IsB64Char(s[i])
    THEN A2bBase64(s, i + 1, quad_pos, leftchar, pads, out)
    ELSE LET v == B64Value(s[i]) IN
         CASE quad_pos = 0 -> A2bBase64(s, i + 1, 1, v, 0, out)
           [] quad_pos = 1 ->
                A2bBase64(s, i + 1, 2, v % 16, 0,
                          Append(out, (leftchar * 4) + (v \div 16)))
           [] quad_pos = 2 ->
                A2bBase64(s, i + 1, 3, v % 4, 0,
                          Append(out, (leftchar * 16) + (v \div 4)))
           [] quad_pos = 3 ->
                A2bBase64(s, i + 1, 0, 0, 0, Append(out, (leftchar * 64) + v))

\* base64.b64decode(v) for a context value v: a TypeError for anything that
\* is not a str, and a digest is a str of 64 hexadecimal characters, all of
\* them base64 characters, whose decoding is kept out of the model's inputs.
B64Decode(v) ==
    IF "str" \in DOMAIN v THEN A2bBase64(v.str, 1, 0, 0, 0, << >>)
    ELSE DecodeError

(***************************************************************************)
(* bytes.decode() followed by int(): UTF-8 decoding (bytes above 127 are   *)
(* outside the modelled inputs and are rejected), then Python's base 10    *)
(* integer literal: surrounding whitespace, an optional sign, digits with  *)
(* single underscores between them.                                        *)
(***************************************************************************)
IsSpaceByte(b) == b \in {9, 10, 11, 12, 13, 32}
IsDigitByte(b) == b \in 48..57

RECURSIVE LStrip(_)
LStrip(bs) ==
    IF bs # << >> /\ IsSpaceByte(Head(bs)) THEN LStrip(Tail(bs)) ELSE bs

RECURSIVE RStrip(_)
RStrip(bs) ==
    IF bs # << >> /\ IsSpaceByte(bs[Len(bs)])
    THEN RStrip(SubSeq(bs, 1, Len(bs) - 1)) ELSE bs

\* digits with optional single underscores between digits
RECURSIVE DigitsValid(_, _)
DigitsValid(bs, i) ==
    IF i > Len(bs) THEN TRUE
    ELSE IF IsDigitByte(bs[i]) THEN DigitsValid(bs, i + 1)
    ELSE /\ bs[i] = 95
         /\ i > 1 /\ i < Len(bs)
         /\ IsDigitByte(bs[i - 1]) /\ IsDigitByte(bs[i + 1])
         /\ DigitsValid(bs, i + 1)

RECURSIVE DigitsValue(_, _, _)
DigitsValue(bs, i, acc) ==
    IF i > Len(bs) THEN acc
    ELSE IF bs[i] = 95 THEN DigitsValue(bs, i + 1, acc)
    ELSE DigitsValue(bs, i + 1, (acc * 10) + (bs[i] - 48))

ParseError == [ok |-> FALSE]

\* int(bs.decode())
ParseInt(bs) ==
    IF \E i \in 1..Len(bs) : bs[i] > 127 THEN ParseError
    ELSE LET t == RStrip(LStrip(bs))
             signed == t # << >> /\ Head(t) \in {43, 45}
             d == IF signed THEN Tail(t) ELSE t
         IN IF d = << >> \/ ~DigitsValid(d, 1) THEN ParseError
            ELSE [ok |-> TRUE,
                  val |-> IF signed /\ Head(t) = 45
                          THEN 0 - DigitsValue(d, 1, 0)
                          ELSE DigitsValue(d, 1, 0)]

\* int(base64.b64decode(v).decode()) for a context value v
DecodeInt(v) ==
    LET b == B64Decode(v)
    IN IF b.ok THEN ParseInt(b.bytes) ELSE ParseError

(***************************************************************************)
(* The server's side of the encoding: str(n) as ASCII bytes and            *)
(* base64.b64encode of those bytes.                                        *)
(***************************************************************************)
RECURSIVE NatText(_)
NatText(n) ==
    IF n < 10 THEN << 48 + n >> ELSE Append(NatText(n \div 10), 48 + (n % 10))

DecimalText(n) == IF n < 0 THEN << 45 >> \o NatText(0 - n) ELSE NatText(n)

RECURSIVE B64Encode(_)
B64Encode(bs) ==
    IF bs = << >> THEN << >>
    ELSE IF Len(bs) = 1
    THEN << B64Alphabet[(bs[1] \div 4) + 1],
            B64Alphabet[((bs[1] % 4) * 16) + 1], "=", "=" >>
    ELSE IF Len(bs) = 2
    THEN << B64Alphabet[(bs[1] \div 4) + 1],
            B64Alphabet[((bs[1] % 4) * 16) + (bs[2] \div 16) + 1],
            B64Alphabet[((bs[2] % 16) * 4) + 1], "=" >>
    ELSE << B64Alphabet[(bs[1] \div 4) + 1],
            B64Alphabet[((bs[1] % 4) * 16) + (bs[2] \div 16) + 1],
            B64Alphabet[((bs[2] % 16) * 4) + (bs[3] \div 64) + 1],
            B64Alphabet[(bs[3] % 64) + 1] >> \o B64Encode(SubSeq(bs, 4, Len(bs)))

EncodeInt(n) == PyStr(B64Encode(DecimalText(n)))

(***************************************************************************)
(* Dictionaries (self.ctx, a JSON object) are functions on Keys, with      *)
(* Absent for a key the dictionary does not hold.                          *)
(***************************************************************************)
Keys ==
    { "session_id", "c1", "c2", "c3", "request_token", "seq", "hc_s", "hc_i",
      "math_proof", "webgl_vendor", "webgl_renderer", "canvas_fp", "v_token",
      "seq_proof", "hash_proof", "detail" }

EmptyDict == [k \in Keys |-> Absent]

PyDict(d) == [dict |-> d]
IsDict(v) == "dict" \in DOMAIN v

\* dict.update(data)
Update(c, data) == [k \in Keys |-> IF IsAbsent(data[k]) THEN c[k] ELSE data[k]]

\* Python truth value of a JSON value ("if not data")
Truthy(v) ==
    CASE IsDict(v) -> \E k \in Keys : ~IsAbsent(v.dict[k])
      [] "str" \in DOMAIN v -> v.str # << >>
      [] "hex" \in DOMAIN v -> TRUE
      [] IsInt(v) -> v.int # 0
      [] IsList(v) -> v.list # << >>
      [] OTHER -> FALSE

(***************************************************************************)
(* What the server does with one request: the transport fails, or a        *)
(* response arrives with a status and a body; a body is empty text, text   *)
(* that is not JSON, or the text of a JSON value.                          *)
(***************************************************************************)
TransportError == [kind |-> "transport_error"]
NoResponse == [kind |-> "none"]
Http(status, body) == [kind |-> "http", status |-> status, body |-> body]
EmptyBody == [text |-> "empty"]
NotJsonBody == [text |-> "not_json"]
JsonBody(v) == [json |-> v]
IsJson(body) == "json" \in DOMAIN body

\* SecureRegistrationClient._get: the parsed body, or None on any exception
\* (transport error, raise_for_status on 4xx/5xx, r.json() on a non-JSON body)
Get(resp) ==
    IF resp.kind = "transport_error" THEN PyNone
    ELSE IF resp.status >= 400 THEN PyNone
    ELSE IF ~IsJson(resp.body) THEN PyNone
    ELSE resp.body.json

\* SecureRegistrationClient._post: None on a transport error or when not r.ok,
\* {} for an empty body, else the parsed body (None when it is not JSON)
Post(resp) ==
    IF resp.kind = "transport_error" THEN PyNone
    ELSE IF resp.status >= 400 THEN PyNone
    ELSE IF resp.body = EmptyBody THEN PyDict(EmptyDict)
    ELSE IF ~IsJson(resp.body) THEN PyNone
    ELSE resp.body.json

(***************************************************************************)
(* The steps.  Each is an operator from the context (and the server's      *)
(* response, for a step that makes a request) to an outcome:               *)
(*   ret   "True" or "False" as returned, "raised" when an exception       *)
(*         leaves the step                                                 *)
(*   ctx   self.ctx afterwards                                             *)
(*   reqs  the requests the step sent                                      *)
(***************************************************************************)
Outcome(ret, c, reqs) == [ret |-> ret, ctx |-> c, reqs |-> reqs]

Request(method, path, json) == [method |-> method, path |-> path, json |-> json]

\* step_trace as it would be if it returned r.ok
step_trace_checks_status(c, resp) ==
    Outcome(IF resp.kind = "http" /\ resp.status >= 400 THEN "False" ELSE "True",
            c, << Request("POST", "/api/v1/trace", PyDict(EmptyDict)) >>)

\* step_trace as it would be if a transport error were fatal
step_trace_fatal(c, resp) ==
    Outcome(IF resp.kind = "transport_error" THEN "False" ELSE "True", c,
            << Request("POST", "/api/v1/trace", PyDict(EmptyDict)) >>)

\* step_trace: the POST's result is ignored and every exception swallowed
step_trace(c, resp) ==
    Outcome("True", c, << Request("POST", "/api/v1/trace", PyDict(EmptyDict)) >>)

\* step_init
step_init(c, resp) ==
    LET data == Get(resp)
        reqs == << Request("GET", "/api/v1/init", PyNone) >>
    IN IF ~Truthy(data) THEN Outcome("False", c, reqs)
       ELSE IF ~IsDict(data) THEN Outcome("raised", c, reqs)
       ELSE LET c2 == Update(c, data.dict)
            IN IF IsAbsent(c2["session_id"]) THEN Outcome("raised", c2, reqs)
               ELSE Outcome("True", c2, reqs)

\* the proof with a remainder that takes the sign of the dividend
MathProofTruncates(c1, c2, c3) ==
    LET x == (c1 * c2) + c3
    IN IF x < 0 THEN 0 - ((0 - x) % 1000) ELSE x % 1000

\* the proof with the wrong modulus
MathProofMod100(c1, c2, c3) == ((c1 * c2) + c3) % 100

\* ((c1 * c2) + c3) % 1000
MathProof(c1, c2, c3) == ((c1 * c2) + c3) % 1000

\* step_solve_math
step_solve_math(c) ==
    LET d1 == DecodeInt(c["c1"])
        d2 == DecodeInt(c["c2"])
        d3 == DecodeInt(c["c3"])
    IN IF ~d1.ok \/ ~d2.ok \/ ~d3.ok THEN Outcome("False", c, << >>)
       ELSE Outcome("True",
                    [c EXCEPT !["math_proof"] =
                                  PyInt(MathProof(d1.val, d2.val, d3.val))],
                    << >>)

\* hashlib.sha256(v.encode()).hexdigest()
Sha256Hex(v) == [hex |-> v]

WebglVendor == PyStr(<< "I", "n", "t", "e", "l", " ", "I", "n", "c", "." >>)
WebglRenderer ==
    PyStr(<< "I", "n", "t", "e", "l", " ", "I", "r", "i", "s", " ", "O", "p", "e", "n", "G", "L" >> \o
          << " ", "E", "n", "g", "i", "n", "e" >>)
CanvasSeed ==
    PyStr(<< "c", "a", "n", "v", "a", "s", "-", "f", "i", "n", "g", "e", "r", "p", "r", "i", "n", "t" >> \o
          << "-", "s", "e", "e", "d" >>)

\* step_generate_fingerprints
step_generate_fingerprints(c) ==
    Outcome("True",
            [c EXCEPT !["webgl_vendor"] = WebglVendor,
                      !["webgl_renderer"] = WebglRenderer,
                      !["canvas_fp"] = Sha256Hex(CanvasSeed)],
            << >>)

\* step_device_check: building the payload raises KeyError on a missing key,
\* before any request is sent; result.get raises on a body that is not an
\* object
step_device_check(c, resp) ==
    IF \E k \in {"webgl_vendor", "webgl_renderer", "request_token",
                 "math_proof", "canvas_fp"} : IsAbsent(c[k])
    THEN Outcome("raised", c, << >>)
    ELSE LET payload == [webgl_vendor |-> c["webgl_vendor"],
                         webgl_renderer |-> c["webgl_renderer"],
                         request_token |-> c["request_token"],
                         math_proof |-> c["math_proof"],
                         canvas_fingerprint |-> c["canvas_fp"]]
             reqs == << Request("POST", "/api/v1/device_check", payload) >>
             result == Post(resp)
         IN IF ~Truthy(result) THEN Outcome("False", c, reqs)
            ELSE IF ~IsDict(result) THEN Outcome("raised", c, reqs)
            ELSE Outcome("True",
                         [c EXCEPT !["v_token"] =
                              IF IsAbsent(result.dict["v_token"])
                              THEN PyStr(<< >>)
                              ELSE result.dict["v_token"]],
                         reqs)

\* step_heartbeat as it would be if it accepted every success status (r.ok)
step_heartbeat_accepts_ok(c, resp) ==
    LET reqs == << Request("GET", "/api/v1/monitoring/heartbeat", PyNone) >>
    IN IF resp.kind = "transport_error" THEN Outcome("False", c, reqs)
       ELSE IF resp.status < 400 THEN Outcome("True", c, reqs)
       ELSE Outcome("False", c, reqs)

\* step_heartbeat
step_heartbeat(c, resp) ==
    LET reqs == << Request("GET", "/api/v1/monitoring/heartbeat", PyNone) >>
    IN IF resp.kind = "transport_error" THEN Outcome("False", c, reqs)
       ELSE IF resp.status = 200 THEN Outcome("True", c, reqs)
       ELSE Outcome("False", c, reqs)

\* [int(base64.b64decode(x).decode()) for x in l]
RECURSIVE DecodeAll(_)
DecodeAll(l) ==
    IF l = << >> THEN [ok |-> TRUE, vals |-> << >>]
    ELSE LET d == DecodeInt(Head(l))
             rest == DecodeAll(Tail(l))
         IN IF d.ok /\ rest.ok
            THEN [ok |-> TRUE, vals |-> << d.val >> \o rest.vals]
            ELSE [ok |-> FALSE]

\* seq[i] for a negative i: IndexError when the list is shorter than -i
HasNegIndex(l, i) == Len(l) + i >= 0
NegIndex(l, i) == l[Len(l) + i + 1]

\* the proof taken from the front of the list
SeqProofFirstTwo(l) == l[1] + l[2]

\* seq[-1] + seq[-2]
SeqProof(l) == NegIndex(l, 0 - 1) + NegIndex(l, 0 - 2)

\* step_solve_sequence as it would be if its handler caught ValueError only:
\* the IndexError of a short list leaves the step
step_solve_sequence_index_escapes(c) ==
    IF ~IsList(c["seq"]) THEN Outcome("False", c, << >>)
    ELSE LET d == DecodeAll(c["seq"].list)
         IN IF ~d.ok THEN Outcome("False", c, << >>)
            ELSE IF ~HasNegIndex(d.vals, 0 - 1) \/ ~HasNegIndex(d.vals, 0 - 2)
            THEN Outcome("raised", c, << >>)
            ELSE Outcome("True",
                         [c EXCEPT !["seq_proof"] = PyInt(SeqProof(d.vals))],
                         << >>)

\* step_solve_sequence: iterating anything but a list of encoded integers
\* ends in an exception (a str yields single characters, which never decode
\* to an integer), as do a missing key and a list shorter than two
step_solve_sequence(c) ==
    IF ~IsList(c["seq"]) THEN Outcome("False", c, << >>)
    ELSE LET d == DecodeAll(c["seq"].list)
         IN IF ~d.ok THEN Outcome("False", c, << >>)
            ELSE IF ~HasNegIndex(d.vals, 0 - 1) \/ ~HasNegIndex(d.vals, 0 - 2)
            THEN Outcome("False", c, << >>)
            ELSE Outcome("True",
                         [c EXCEPT !["seq_proof"] = PyInt(SeqProof(d.vals))],
                         << >>)

\* the loop hashing the seed, not the previous digest, on every pass
HashLoopFromSeed(h, n) == IF n <= 0 THEN h ELSE Sha256Hex(h)

\* the loop making one pass too many
RECURSIVE HashLoopOneMore(_, _)
HashLoopOneMore(h, n) ==
    IF n < 0 THEN h ELSE HashLoopOneMore(Sha256Hex(h), n - 1)

\* for _ in range(n): h = hashlib.sha256(h.encode()).hexdigest()
RECURSIVE HashLoop(_, _)
HashLoop(h, n) == IF n <= 0 THEN h ELSE HashLoop(Sha256Hex(h), n - 1)

\* h[:32] is defined for a str and for a list
Sliceable(v) == IsStr(v) \/ IsList(v)

\* step_solve_hash_chain: range() needs an int, h.encode() (only evaluated
\* when the loop body runs) needs a str, and the log line after the store
\* slices h
step_solve_hash_chain(c) ==
    IF IsAbsent(c["hc_s"]) \/ ~IsInt(c["hc_i"]) THEN Outcome("False", c, << >>)
    ELSE IF c["hc_i"].int >= 1 /\ ~IsStr(c["hc_s"])
    THEN Outcome("False", c, << >>)
    ELSE LET h == HashLoop(c["hc_s"], c["hc_i"].int)
             c2 == [c EXCEPT !["hash_proof"] = h]
         IN IF Sliceable(h) THEN Outcome("True", c2, << >>)
            ELSE Outcome("False", c2, << >>)

\* the boundary step as it would be if it reported success
step_crypto_boundary_succeeds(c) == Outcome("True", c, << >>)

\* step_crypto_boundary
step_crypto_boundary(c) == Outcome("False", c, << >>)

(***************************************************************************)
(* Bounds of the server's behaviour.                                       *)
(***************************************************************************)
\* the integers behind c1, c2, c3 are 0 and the powers 7^0 .. 7^MaxExp
MaxExp == 3
\* the seq list has at most MaxSeqLen elements
MaxSeqLen == 3
\* hc_i is at most MaxIter
MaxIter == 3

RECURSIVE Pow7(_)
Pow7(k) == IF k = 0 THEN 1 ELSE 7 * Pow7(k - 1)

MathInts == {0} \cup { Pow7(k) : k \in 0..MaxExp }

\* what the server can put in c1, c2 and c3: the encoding of a non-negative
\* integer, of a negative one, "N!w==" (the encoding of 7 with a character
\* outside the alphabet inserted), "Nw" (padding missing), the encoding of
\* the text "x", a number instead of a str, or nothing
CValues ==
    { EncodeInt(n) : n \in MathInts } \cup
    { EncodeInt(0 - 7),
      PyStr(<< "N", "!", "w", "=", "=" >>),
      PyStr(<< "N", "w" >>),
      PyStr(B64Encode(<< 120 >>)),
      PyInt(5),
      Absent }

SeqElems == { EncodeInt(1), EncodeInt(20), EncodeInt(0 - 7),
              PyStr(B64Encode(<< 120 >>)) }

SeqLists == UNION { [1..n -> SeqElems] : n \in 0..MaxSeqLen }

SeqValues ==
    { PyList(l) : l \in SeqLists } \cup { PyStr(<< >>), PyInt(3), Absent }

SeedValues ==
    { PyStr(<< "a", "b" >>), PyStr(<< >>), PyInt(5), PyNone, PyList(<< >>),
      Absent }

IterValues ==
    { PyInt(n) : n \in (0 - 1)..MaxIter } \cup
    { PyStr(<< "2" >>), PyNone, Absent }

SessionId == PyStr(<< "s", "1" >>)
RequestToken == PyStr(<< "r", "t" >>)
VToken == PyStr(<< "v", "t" >>)

\* an Init payload with every field the later steps read
ValidPayload ==
    [EmptyDict EXCEPT !["session_id"] = SessionId,
                      !["c1"] = EncodeInt(7),
                      !["c2"] = EncodeInt(343),
                      !["c3"] = EncodeInt(49),
                      !["request_token"] = RequestToken,
                      !["seq"] = PyList(<< EncodeInt(1), EncodeInt(20) >>),
                      !["hc_s"] = PyStr(<< "a", "b" >>),
                      !["hc_i"] = PyInt(2)]

\* the Init payloads of the model: the valid payload with the inputs of one
\* step, or the presence of the fields, varied over all their values
InitPayloads ==
    { [ValidPayload EXCEPT !["c1"] = v[1], !["c2"] = v[2], !["c3"] = v[3]] :
          v \in CValues \X CValues \X CValues } \cup
    { [ValidPayload EXCEPT !["seq"] = v] : v \in SeqValues } \cup
    { [ValidPayload EXCEPT !["hc_s"] = v[1], !["hc_i"] = v[2]] :
          v \in SeedValues \X IterValues } \cup
    { [ValidPayload EXCEPT !["session_id"] = v[1],
                           !["request_token"] = v[2],
                           !["math_proof"] = v[3],
                           !["hash_proof"] = v[4]] :
          v \in {SessionId, Absent} \X {RequestToken, Absent} \X
                {PyInt(5000), Absent} \X {PyStr(<< "h" >>), Absent} } \cup
    { [ValidPayload EXCEPT !["math_proof"] = PyInt(5000), !["c1"] = v] :
          v \in CValues }

Statuses == {200, 204, 404, 500}

TraceResponses == {TransportError} \cup { Http(s, EmptyBody) : s \in Statuses }

InitResponses ==
    {TransportError} \cup
    { Http(s, b) : s \in Statuses,
                   b \in {EmptyBody, NotJsonBody, JsonBody(PyNone),
                          JsonBody(PyDict(EmptyDict)), JsonBody(PyInt(5))} } \cup
    { Http(s, JsonBody(PyDict(ValidPayload))) : s \in Statuses } \cup
    { Http(200, JsonBody(PyDict(d))) : d \in InitPayloads }

DeviceResponses ==
    {TransportError} \cup
    { Http(s, b) :
        s \in Statuses,
        b \in {EmptyBody, NotJsonBody, JsonBody(PyDict(EmptyDict)),
               JsonBody(PyInt(5)),
               JsonBody(PyDict([EmptyDict EXCEPT !["v_token"] = VToken])),
               JsonBody(PyDict([EmptyDict EXCEPT !["v_token"] = PyStr(<< >>)])),
               JsonBody(PyDict([EmptyDict EXCEPT
                                  !["detail"] = PyStr(<< "n", "o" >>)]))} }

HeartbeatResponses ==
    {TransportError} \cup { Http(s, EmptyBody) : s \in Statuses }

(***************************************************************************)
(* run(): the loop over the step list.                                     *)
(*   pc          "loop" inside the for loop, "summary" when about to call  *)
(*               print_summary, "done" after it, "crashed" when an         *)
(*               exception left run()                                      *)
(*   idx         position in steps of the step to execute next             *)
(*   completed   the local counter                                         *)
(*   ctx         self.ctx                                                  *)
(*   stopped_at  the name printed after "Flow stopped at:", or "none"      *)
(*   summary     the argument print_summary was called with, or -1         *)
(*   executed    history: the names of the steps called so far             *)
(*   requests    history: the requests sent so far                         *)
(*   last        history: the last step called, the response the server    *)
(*               gave it, what it returned and the context it started from *)
(***************************************************************************)
VARIABLES pc, idx, completed, ctx, stopped_at, summary, executed, requests,
          last

vars == << pc, idx, completed, ctx, stopped_at, summary, executed, requests,
           last >>

steps ==
    << "Trace", "Init", "Math Challenge", "Fingerprints", "Device Check",
       "Heartbeat", "Sequence Proof", "Hash Chain", "Crypto Boundary" >>

Init ==
    /\ pc = "loop"
    /\ idx = 1
    /\ completed = 0
    /\ ctx = EmptyDict
    /\ stopped_at = "none"
    /\ summary = 0 - 1
    /\ executed = << >>
    /\ requests = << >>
    /\ last = [step |-> "none", resp |-> NoResponse, ret |-> "none",
               before |-> EmptyDict]

\* the loop body retrying a step that returned False ("continue" on the same
\* step instead of "break")
RunStepRetries(o, resp) ==
    /\ ctx' = o.ctx
    /\ executed' = Append(executed, steps[idx])
    /\ requests' = requests \o o.reqs
    /\ last' = [step |-> steps[idx], resp |-> resp, ret |-> o.ret,
                before |-> ctx]
    /\ summary' = summary
    /\ CASE o.ret = "raised" ->
              /\ pc' = "crashed"
              /\ UNCHANGED << idx, completed, stopped_at >>
         [] o.ret = "False" ->
              /\ pc' = IF Len(executed) >= Len(steps) THEN "summary" ELSE "loop"
              /\ stopped_at' = steps[idx]
              /\ UNCHANGED << idx, completed >>
         [] o.ret = "True" ->
              /\ completed' = completed + 1
              /\ idx' = idx + 1
              /\ pc' = IF idx = Len(steps) THEN "summary" ELSE "loop"
              /\ stopped_at' = stopped_at

\* the loop body with "completed += 1" placed before the test of the result
RunStepCountsFailed(o, resp) ==
    /\ ctx' = o.ctx
    /\ executed' = Append(executed, steps[idx])
    /\ requests' = requests \o o.reqs
    /\ last' = [step |-> steps[idx], resp |-> resp, ret |-> o.ret,
                before |-> ctx]
    /\ summary' = summary
    /\ CASE o.ret = "raised" ->
              /\ pc' = "crashed"
              /\ UNCHANGED << idx, completed, stopped_at >>
         [] o.ret = "False" ->
              /\ pc' = "summary"
              /\ stopped_at' = steps[idx]
              /\ completed' = completed + 1
              /\ idx' = idx
         [] o.ret = "True" ->
              /\ completed' = completed + 1
              /\ idx' = idx + 1
              /\ pc' = IF idx = Len(steps) THEN "summary" ELSE "loop"
              /\ stopped_at' = stopped_at

\* one iteration of the for loop, o being the outcome of step_fn() and resp
\* the response the step's request met
RunStep(o, resp) ==
    /\ ctx' = o.ctx
    /\ executed' = Append(executed, steps[idx])
    /\ requests' = requests \o o.reqs
    /\ last' = [step |-> steps[idx], resp |-> resp, ret |-> o.ret,
                before |-> ctx]
    /\ summary' = summary
    /\ CASE o.ret = "raised" ->
              /\ pc' = "crashed"
              /\ UNCHANGED << idx, completed, stopped_at >>
         [] o.ret = "False" ->
              /\ pc' = "summary"
              /\ stopped_at' = steps[idx]
              /\ UNCHANGED << idx, completed >>
         [] o.ret = "True" ->
              /\ completed' = completed + 1
              /\ idx' = idx + 1
              /\ pc' = IF idx = Len(steps) THEN "summary" ELSE "loop"
              /\ stopped_at' = stopped_at

AtStep(name) == pc = "loop" /\ steps[idx] = name

Trace ==
    /\ AtStep("Trace")
    /\ \E resp \in TraceResponses : RunStep(step_trace(ctx, resp), resp)

InitStep ==
    /\ AtStep("Init")
    /\ \E resp \in InitResponses : RunStep(step_init(ctx, resp), resp)

MathChallenge ==
    /\ AtStep("Math Challenge")
    /\ RunStep(step_solve_math(ctx), NoResponse)

Fingerprints ==
    /\ AtStep("Fingerprints")
    /\ RunStep(step_generate_fingerprints(ctx), NoResponse)

DeviceCheck ==
    /\ AtStep("Device Check")
    /\ \E resp \in DeviceResponses : RunStep(step_device_check(ctx, resp), resp)

Heartbeat ==
    /\ AtStep("Heartbeat")
    /\ \E resp \in HeartbeatResponses : RunStep(step_heartbeat(ctx, resp), resp)

SequenceProof ==
    /\ AtStep("Sequence Proof")
    /\ RunStep(step_solve_sequence(ctx), NoResponse)

HashChain ==
    /\ AtStep("Hash Chain")
    /\ RunStep(step_solve_hash_chain(ctx), NoResponse)

CryptoBoundary ==
    /\ AtStep("Crypto Boundary")
    /\ RunStep(step_crypto_boundary(ctx), NoResponse)

\* self.print_summary(completed)
PrintSummary ==
    /\ pc = "summary"
    /\ pc' = "done"
    /\ summary' = completed
    /\ UNCHANGED << idx, completed, ctx, stopped_at, executed, requests, last >>

Next ==
    \/ Trace
    \/ InitStep
    \/ MathChallenge
    \/ Fingerprints
    \/ DeviceCheck
    \/ Heartbeat
    \/ SequenceProof
    \/ HashChain
    \/ CryptoBoundary
    \/ PrintSummary

Spec == Init /\ [][Next]_vars

(***************************************************************************)
(* Properties                                                              *)
(***************************************************************************)
StepIndex(name) == CHOOSE k \in 1..Len(steps) : steps[k] = name

\* C1: when step k is the first step to return False, the completed count
\* reported (printed with "Flow stopped at" and passed to print_summary) is
\* k - 1 and the steps executed in the run are exactly steps 1..k, in every
\* state from then on.
C1_HaltAtFirstFailure ==
    (last.ret = "False" \/ stopped_at # "none") =>
        LET k == StepIndex(last.step)
        IN /\ last.ret = "False"
           /\ stopped_at = last.step
           /\ completed = k - 1
           /\ executed = SubSeq(steps, 1, k)
           /\ pc \in {"summary", "done"}
           /\ (pc = "done" => summary = k - 1)

\* Device Check failed: 4 completed, nothing after it executed
C1_Witness ==
    /\ pc = "done"
    /\ stopped_at = "Device Check"
    /\ summary = 4
    /\ executed = << "Trace", "Init", "Math Challenge", "Fingerprints",
                     "Device Check" >>

\* C2: step_crypto_boundary returns False whatever the context holds, and a
\* run in which the eight steps before it succeeded (completed = 8) has
\* Crypto Boundary as its only next step, stops there with the count still
\* 8, and calls print_summary with 8.
C2_CryptoBoundaryHalts ==
    /\ completed <= 8
    /\ (last.step = "Crypto Boundary" =>
            /\ last.ret = "False"
            /\ ctx = last.before
            /\ stopped_at = "Crypto Boundary")
    /\ (completed = 8 =>
            /\ SubSeq(executed, 1, 8) = SubSeq(steps, 1, 8)
            /\ (pc = "loop" => steps[idx] = "Crypto Boundary")
            /\ (pc # "loop" =>
                    /\ pc \in {"summary", "done"}
                    /\ stopped_at = "Crypto Boundary"
                    /\ executed = steps)
            /\ (pc = "done" => summary = 8))

C2_Witness ==
    /\ pc = "done"
    /\ stopped_at = "Crypto Boundary"
    /\ summary = 8
    /\ Len(executed) = 9

\* C3: no exception leaves run(): every run ends in print_summary, no step
\* raises.
C3_NoExceptionEscapes == pc # "crashed" /\ last.ret # "raised"

\* C4: Trace returns True whether its POST got a response of any status or a
\* transport error, and the run then has Init as its next step: no run
\* leaves the loop before it has executed Init.
C4_TraceNeverHalts ==
    /\ (last.step = "Trace" =>
            /\ last.ret = "True"
            /\ pc = "loop"
            /\ steps[idx] = "Init")
    /\ (executed # << >> => executed[1] = "Trace")
    /\ (Len(executed) >= 2 => executed[2] = "Init")
    /\ (pc # "loop" => Len(executed) >= 2)

\* the POST of Trace met a transport error and the run is about to call Init
C4_Witness ==
    /\ last.step = "Trace"
    /\ last.resp = TransportError
    /\ last.ret = "True"
    /\ pc = "loop"
    /\ steps[idx] = "Init"

\* C5: a step that returned False left the context as it found it.
C5_FailureLeavesContext == last.ret = "False" => ctx = last.before

SeqInts == {1, 20, 0 - 7}

\* C7: when seq is a list of at least two elements, each the base64 text of
\* an integer, Sequence Proof returns True and stores the sum of the last
\* two integers as seq_proof, whatever the elements before them.
C7_SequenceProof ==
    (/\ last.step = "Sequence Proof"
     /\ IsList(last.before["seq"])
     /\ Len(last.before["seq"].list) >= 2
     /\ \A i \in 1..Len(last.before["seq"].list) :
            \E n \in SeqInts : last.before["seq"].list[i] = EncodeInt(n))
    => LET l == last.before["seq"].list
       IN /\ last.ret = "True"
          /\ \E a, b \in SeqInts :
                /\ l[Len(l)] = EncodeInt(a)
                /\ l[Len(l) - 1] = EncodeInt(b)
                /\ ctx["seq_proof"] = PyInt(a + b)

\* seq = [20, 1, -7]: the proof is 1 + (-7), not 20 + 1
C7_Witness ==
    /\ last.step = "Sequence Proof"
    /\ last.ret = "True"
    /\ last.before["seq"] =
           PyList(<< EncodeInt(20), EncodeInt(1), EncodeInt(0 - 7) >>)
    /\ ctx["seq_proof"] = PyInt(0 - 6)

\* C8: when seq is a list of fewer than two elements, Sequence Proof returns
\* False without raising and without touching the context (no seq_proof is
\* stored), and the run stops at Sequence Proof with 6 steps completed.
C8_ShortSequenceFails ==
    (/\ last.step = "Sequence Proof"
     /\ IsList(last.before["seq"])
     /\ Len(last.before["seq"].list) < 2)
    => /\ last.ret = "False"
       /\ ctx = last.before
       /\ IsAbsent(ctx["seq_proof"])
       /\ stopped_at = "Sequence Proof"
       /\ completed = 6
       /\ pc \in {"summary", "done"}
       /\ (pc = "done" => summary = 6)

\* a one-element list whose element decodes
C8_Witness ==
    /\ last.step = "Sequence Proof"
    /\ last.before["seq"] = PyList(<< EncodeInt(20) >>)
    /\ last.ret = "False"
    /\ pc = "done"
    /\ summary = 6

\* C9: for a str seed and hc_i = n >= 0, hashing the stored hash_proof once
\* more gives the hash_proof that step_solve_hash_chain stores when started
\* from the same context with hc_i = n + 1.
C9_HashChainOneMore ==
    (/\ last.step = "Hash Chain"
     /\ IsStr(last.before["hc_s"])
     /\ IsInt(last.before["hc_i"])
     /\ last.before["hc_i"].int >= 0)
    => LET n == last.before["hc_i"].int
           more == step_solve_hash_chain(
                       [last.before EXCEPT !["hc_i"] = PyInt(n + 1)])
       IN /\ last.ret = "True"
          /\ more.ret = "True"
          /\ Sha256Hex(ctx["hash_proof"]) = more.ctx["hash_proof"]

\* two passes over the seed "ab"
C9_Witness ==
    /\ last.step = "Hash Chain"
    /\ last.ret = "True"
    /\ last.before["hc_s"] = PyStr(<< "a", "b" >>)
    /\ last.before["hc_i"] = PyInt(2)
    /\ ctx["hash_proof"] = Sha256Hex(Sha256Hex(PyStr(<< "a", "b" >>)))

\* C10: with hc_i = 0 and a str seed, Hash Chain returns True and stores the
\* seed itself as hash_proof.
C10_ZeroIterations ==
    (/\ last.step = "Hash Chain"
     /\ IsStr(last.before["hc_s"])
     /\ last.before["hc_i"] = PyInt(0))
    => /\ last.ret = "True"
       /\ ctx["hash_proof"] = last.before["hc_s"]

C10_Witness ==
    /\ last.step = "Hash Chain"
    /\ last.before["hc_i"] = PyInt(0)
    /\ last.before["hc_s"] = PyStr(<< "a", "b" >>)
    /\ last.ret = "True"
    /\ ctx["hash_proof"] = PyStr(<< "a", "b" >>)

\* C11: when the Device Check POST gets a success status and the response
\* has no v_token (an empty body, an empty JSON object, or an object with
\* other fields only), Device Check returns True and stores the empty str as
\* v_token.
C11_MissingVTokenTolerated ==
    (/\ last.step = "Device Check"
     /\ last.resp.kind = "http"
     /\ last.resp.status < 400
     /\ \/ last.resp.body = EmptyBody
        \/ /\ IsJson(last.resp.body)
           /\ IsDict(last.resp.body.json)
           /\ IsAbsent(last.resp.body.json.dict["v_token"]))
    => /\ last.ret = "True"
       /\ ctx["v_token"] = PyStr(<< >>)

\* a character that base64 text cannot hold
OutsideB64(ch) == ~IsB64Char(ch) /\ ch # "="

\* C12: when c1 is a str holding a character outside the base64 alphabet,
\* Math Challenge returns False and stores no math_proof.
C12_BadBase64Fails ==
    (/\ last.step = "Math Challenge"
     /\ "str" \in DOMAIN last.before["c1"]
     /\ \E i \in 1..Len(last.before["c1"].str) :
            OutsideB64(last.before["c1"].str[i]))
    => /\ last.ret = "False"
       /\ ctx["math_proof"] = last.before["math_proof"]

\* the GET of Init errored: a transport error or an HTTP error status
InitGetErrored(resp) == resp.kind = "transport_error" \/ resp.status >= 400

\* the GET of Init returned no body: empty text, text that is not JSON, or
\* JSON that holds nothing (null, an empty object)
InitNoBody(resp) ==
    /\ resp.kind = "http"
    /\ \/ ~IsJson(resp.body)
       \/ resp.body.json = PyNone
       \/ resp.body.json = PyDict(EmptyDict)

\* C13: Init returns False exactly when its GET errored or returned no body;
\* in every other case it returns True and the context then holds every
\* field of the payload with the payload's value.
C13_InitSucceedsOtherwise ==
    last.step = "Init" =>
        IF InitGetErrored(last.resp) \/ InitNoBody(last.resp)
        THEN last.ret = "False"
        ELSE /\ last.ret = "True"
             /\ IsDict(last.resp.body.json)
             /\ \A k \in Keys :
                    ~IsAbsent(last.resp.body.json.dict[k]) =>
                        ctx[k] = last.resp.body.json.dict[k]

\* C14: Heartbeat returns True exactly when its GET got a response with
\* status 200; any other status, 204 included, and a transport error make it
\* return False; it never raises and never changes the context.
C14_HeartbeatOnly200 ==
    last.step = "Heartbeat" =>
        /\ last.ret \in {"True", "False"}
        /\ (last.ret = "True") <=>
               (last.resp.kind = "http" /\ last.resp.status = 200)
        /\ ctx = last.before

\* a 204 answer fails the step
C14_Witness ==
    /\ last.step = "Heartbeat"
    /\ last.resp.kind = "http"
    /\ last.resp.status = 204
    /\ last.ret = "False"
    /\ stopped_at = "Heartbeat"

\* the endpoints the client requests, in the order of the steps that do
EndpointOrder ==
    << [method |-> "POST", path |-> "/api/v1/trace"],
       [method |-> "GET", path |-> "/api/v1/init"],
       [method |-> "POST", path |-> "/api/v1/device_check"],
       [method |-> "GET", path |-> "/api/v1/monitoring/heartbeat"] >>

IsPrefix(a, b) == Len(a) <= Len(b) /\ a = SubSeq(b, 1, Len(a))

\* C15: the steps executed so far are a prefix of the step list (fixed order,
\* each at most once), and the requests sent so far are a prefix of trace,
\* init, device_check, heartbeat (each at most once, in that order, nothing
\* retried, no other endpoint ever requested).
C15_FixedOrderNoRetry ==
    /\ IsPrefix(executed, steps)
    /\ IsPrefix([i \in 1..Len(requests) |->
                    [method |-> requests[i].method, path |-> requests[i].path]],
                EndpointOrder)

\* the heartbeat request met a transport error and the run ended with four
\* requests sent
C15_Witness ==
    /\ pc = "done"
    /\ last.step = "Heartbeat"
    /\ last.resp = TransportError
    /\ Len(requests) = 4
    /\ Len(executed) = 6

\* the context keys a step reads
ReadKeys(name) ==
    CASE name = "Math Challenge" -> {"c1", "c2", "c3"}
      [] name = "Device Check" ->
            {"webgl_vendor", "webgl_renderer", "request_token", "math_proof",
             "canvas_fp"}
      [] name = "Sequence Proof" -> {"seq"}
      [] name = "Hash Chain" -> {"hc_s", "hc_i"}
      [] OTHER -> {}

\* C16: a step that started with one of the keys it reads never set by an
\* earlier step returned False (it neither raised nor went on with a
\* default), leaving the context alone; the fingerprint keys Device Check
\* reads are those Fingerprints wrote.
C16_MissingKeyFailsFast ==
    /\ (\E k \in ReadKeys(last.step) : IsAbsent(last.before[k])) =>
           /\ last.ret = "False"
           /\ ctx = last.before
    /\ last.step = "Device Check" =>
           /\ last.before["webgl_vendor"] = WebglVendor
           /\ last.before["webgl_renderer"] = WebglRenderer
           /\ last.before["canvas_fp"] = Sha256Hex(CanvasSeed)

\* C17: print_summary is called with a count between 1 and 8, and only after
\* "Flow stopped at" was printed: the loop is never left by running out of
\* steps.
C17_SummaryBetween1And8 ==
    /\ pc = "summary" => (completed \in 1..8 /\ stopped_at # "none")
    /\ pc = "done" => (summary \in 1..8 /\ stopped_at # "none")

\* a run stopped by Init: the smallest count
C17_Witness ==
    /\ pc = "done"
    /\ summary = 1
    /\ stopped_at = "Init"

\* the requests sent to device_check so far
DeviceRequests ==
    { i \in 1..Len(requests) : requests[i].path = "/api/v1/device_check" }

\* C18 as stated: once Math Challenge has run, whether it returned True or
\* False, a math_proof present in the context is an integer in 0..999, and
\* the math_proof sent to device_check is the one in the context.
C18_ProofInRangeOnceRun ==
    /\ (Len(executed) >= 3 /\ ~IsAbsent(ctx["math_proof"])) =>
           /\ IsInt(ctx["math_proof"])
           /\ ctx["math_proof"].int \in 0..999
    /\ \A i \in DeviceRequests : requests[i].json.math_proof = ctx["math_proof"]

\* C18 amended: once Math Challenge has returned True, math_proof is an
\* integer in 0..999, equal to ((c1 * c2) + c3) mod 1000 for the integers
\* (negative ones included) that c1, c2 and c3 of the Init payload decode to,
\* whatever math_proof the Init payload carried, and it is the math_proof
\* sent to device_check.
C18_ProofInRangeOnceSolved ==
    /\ completed >= 3 =>
           LET n1 == DecodeInt(ctx["c1"])
               n2 == DecodeInt(ctx["c2"])
               n3 == DecodeInt(ctx["c3"])
           IN /\ n1.ok /\ n2.ok /\ n3.ok
              /\ IsInt(ctx["math_proof"])
              /\ ctx["math_proof"].int \in 0..999
              /\ (ctx["math_proof"].int - ((n1.val * n2.val) + n3.val)) % 1000 = 0
    /\ \A i \in DeviceRequests :
           /\ completed >= 3
           /\ requests[i].json.math_proof = ctx["math_proof"]

\* c1 = -7, c2 = 1, c3 = 0: 993 was sent to device_check
C18_Witness ==
    /\ last.step = "Device Check"
    /\ ctx["c1"] = EncodeInt(0 - 7)
    /\ ctx["c2"] = EncodeInt(1)
    /\ ctx["c3"] = EncodeInt(0)
    /\ DeviceRequests = {3}
    /\ requests[3].json.math_proof = PyInt(993)

====
